---------------------------- MODULE Spec2Model ----------------------------
(***************************************************************************)
(* Hybrid retrieval tool (tools/search_tool.py) and the chat sessions that *)
(* drive it (app.py, chatbot.py).                                          *)
(*                                                                         *)
(* Spec        : one planner turn calling the tool execute_queries, with   *)
(*               the two executors modelled step by step.                  *)
(* SessionSpec : the turn handlers of app.py and of run_chatbot, with the  *)
(*               agent executor seen through its stream/invoke interface.  *)
(***************************************************************************)
EXTENDS Integers, Sequences, FiniteSets, TLC

VARIABLES
    pc,              \* position of the tool call inside execute_queries
    sql_query,       \* argument sql_query
    pinecone_query,  \* argument pinecone_query
    use_pinecone,    \* argument use_pinecone
    results,         \* the dict `results` of execute_queries (the envelope)
    extracted_ids,   \* the list `extracted_ids` of execute_queries
    sql_ret,         \* outcome of execute_sql_query: returned value or exception
    open_conns,      \* sqlite connections currently open
    id_list,         \* argument id_list of execute_pinecone_query
    query_vector,    \* local query_vector of execute_pinecone_query
    query_params,    \* keyword arguments handed to pc_index.query
    pinecone_ret,    \* outcome of execute_pinecone_query
    calls,           \* instrumentation: executor/service events of this call
    n_calls,         \* tool calls made so far in this turn
    sql_failures,    \* instrumentation: consecutive finished calls of this
                     \* turn whose sql_results section has status "error"
    index_dimension, \* dimension of the index behind pc_index (0: no handle)
    surface,         \* "app" (streamlit, app.py) or "cli" (run_chatbot)
    agent_executor,  \* TRUE when an agent executor object exists
    chat_history,    \* the session's retained history
    phase,           \* position of the session's turn handler
    user_query,      \* the input of the turn in progress
    full_response,   \* app.py: accumulated output of the stream
    stream,          \* chunks the agent executor's stream has yet to yield
    turn,            \* turns handed to the agent executor so far
    delivered,       \* how the last turn ended for the caller
    transcript,      \* instrumentation: every message ever appended
    planner_history, \* the chat_history argument of the running agent call
    tokens,          \* StreamlitCallbackHandler.tokens
    display,         \* text last written to the handler's container
    arrived,         \* instrumentation: tokens and chunks of this turn so far
    OPENAI_API_KEY,  \* TRUE when os.getenv("OPENAI_API_KEY") gave a key
    PINECONE_API_KEY \* TRUE when os.getenv("PINECONE_API_KEY") gave a key

toolVars == <<pc, sql_query, pinecone_query, use_pinecone, results,
              extracted_ids, sql_ret, open_conns, id_list, query_vector,
              query_params, pinecone_ret, calls, n_calls, sql_failures,
              index_dimension>>

sessionVars == <<surface, agent_executor, chat_history, phase, user_query,
                 full_response, stream, turn, delivered, transcript,
                 planner_history, tokens, display, arrived>>

configVars == <<OPENAI_API_KEY, PINECONE_API_KEY>>

vars == <<toolVars, sessionVars, configVars>>

-----------------------------------------------------------------------------
(* Bounds of the model *)

MaxRows == 2       \* rows in one structured result
MaxCalls == 4      \* tool calls in one turn
MaxMatches == 1    \* matches in one index response
MaxTurns == 11     \* turns of one streamlit session
MaxCliTurns == 6   \* turns of one command-line session

-----------------------------------------------------------------------------
(* Python values *)

\* A value stored in a sqlite column, or a Python str held in a row dict.
Null == [t |-> "null", s |-> "", n |-> 0]
StrV(x) == [t |-> "str", s |-> x, n |-> 0]
IntV(k) == [t |-> "int", s |-> "", n |-> k]

Digit == <<"0", "1", "2", "3", "4", "5", "6", "7", "8", "9">>

RECURSIVE NatToStr(_)
NatToStr(k) ==
    IF k < 10 THEN Digit[k + 1]
    ELSE NatToStr(k \div 10) \o Digit[(k % 10) + 1]

\* str(v)
PyStr(v) ==
    IF v.t = "str" THEN v.s
    ELSE IF v.t = "null" THEN "None"
    ELSE IF v.n < 0 THEN "-" \o NatToStr(-v.n) ELSE NatToStr(v.n)

\* Optional[list[str]]
None == [some |-> FALSE, ids |-> <<>>]
Some(l) == [some |-> TRUE, ids |-> l]

EmptyDict == [k \in {} |-> TRUE]

\* d[k] = v
DictSet(d, k, v) ==
    [x \in (DOMAIN d) \cup {k} |-> IF x = k THEN v ELSE d[x]]

\* d[k] = e[k] for every key k of e
DictUpdate(d, e) ==
    [x \in (DOMAIN d) \cup (DOMAIN e) |-> IF x \in DOMAIN e THEN e[x] ELSE d[x]]

Range(f) == {f[i] : i \in DOMAIN f}

\* dict(zip(keys, vals)): a later duplicate key overwrites an earlier one
ZipDict(keys, vals) ==
    LET m == IF Len(keys) < Len(vals) THEN Len(keys) ELSE Len(vals)
        last(k) == CHOOSE i \in 1..m :
                      /\ keys[i] = k
                      /\ \A j \in (i + 1)..m : keys[j] # k
    IN [k \in {keys[i] : i \in 1..m} |-> vals[last(k)]]

Returned(v) == [kind |-> "return", value |-> v, exc |-> "", msg |-> ""]
Raised(e, m) == [kind |-> "raise", value |-> <<>>, exc |-> e, msg |-> m]
NoOutcome == [kind |-> "none", value |-> <<>>, exc |-> "", msg |-> ""]


-----------------------------------------------------------------------------
(* The relational store (sqlite3, data/inventory.db) as the tool sees it *)

QSelectIdTitle == "SELECT id, title FROM products"
QSelectTitle == "SELECT title FROM products"
QSelectAsError == "SELECT title AS error FROM products"
QMalformed == "SELEC id FROM products"
QUnknownColumn == "SELECT colour FROM products"
QEmpty == ""
QDelete == "DELETE FROM products WHERE id = 'p1'"

Queries == {QSelectIdTitle, QSelectTitle, QSelectAsError, QMalformed,
            QUnknownColumn, QEmpty, QDelete}

\* Values the id column holds: NULL, text ids, an integer id.
IdValues == {Null, StrV("p1"), StrV("p2"), IntV(42)}
TitleValue == StrV("Slash 4x4")

\* The diagnostic of the sqlite3.Error that cursor.execute raises for a
\* statement the store rejects whatever its contents; "" when it accepts it.
StatementError(q) ==
    IF q = QMalformed THEN "near \"SELEC\": syntax error"
    ELSE IF q = QUnknownColumn THEN "no such column: colour"
    ELSE ""

\* Diagnostics of sqlite3.Error the store may raise for an accepted statement.
StoreErrors == {"no such table: products", "database is locked"}

\* cursor.description after execute: the projected column names, or None for
\* a statement that yields no result columns.
HasDescription(q) == q \in {QSelectIdTitle, QSelectTitle, QSelectAsError}

ColumnNames(q) ==
    IF q = QSelectIdTitle THEN <<"id", "title">>
    ELSE IF q = QSelectTitle THEN <<"title">>
    ELSE IF q = QSelectAsError THEN <<"error">>
    ELSE <<>>

ColumnValues(c) == IF c = "id" THEN IdValues ELSE {TitleValue}

\* The tuples cursor.fetchall() can return for the columns cols.
RowTuples(cols) ==
    {t \in [1..Len(cols) -> IdValues \cup {TitleValue}] :
        \A i \in 1..Len(cols) : t[i] \in ColumnValues(cols[i])}

FetchAll(q) ==
    IF HasDescription(q)
    THEN UNION {[1..k -> RowTuples(ColumnNames(q))] : k \in 0..MaxRows}
    ELSE {<<>>}

-----------------------------------------------------------------------------
(* execute_sql_query *)

\* [dict(zip(column_names, row)) for row in sql_data]
RowDicts(column_names, sql_data) ==
    [i \in 1..Len(sql_data) |-> ZipDict(column_names, sql_data[i])]

\* return [{"error": f"SQL execution failed: {str(e)}"}]
ErrorRows(msg) == <<[error |-> StrV("SQL execution failed: " \o msg)]>>

\* The body of the try block once cursor.execute has succeeded.
SqlTryBody(q, sql_data) ==
    IF HasDescription(q)
    THEN Returned(RowDicts(ColumnNames(q), sql_data))
    ELSE Raised("TypeError", "'NoneType' object is not iterable")

\* All outcomes of lines 38-47 for the statement q.
SqlOutcomes(q) ==
    IF StatementError(q) # ""
    THEN {Returned(ErrorRows(StatementError(q)))}
    ELSE {Returned(ErrorRows(m)) : m \in StoreErrors}
         \cup {SqlTryBody(q, d) : d \in FetchAll(q)}

Log(e) == calls' = Append(calls, e)

\* sqlite3.connect("data/inventory.db"); it is outside the try block, so a
\* failure to open the store leaves the function as an exception.
SqlConnect ==
    /\ pc = "sql_connect"
    /\ \/ /\ open_conns' = open_conns + 1
          /\ pc' = "sql_execute"
          /\ Log("conn_open")
          /\ UNCHANGED sql_ret
       \/ /\ sql_ret' = Raised("OperationalError", "unable to open database file")
          /\ pc' = "sql_done"
          /\ Log("sql_raise")
          /\ UNCHANGED open_conns
    /\ UNCHANGED <<sql_query, pinecone_query, use_pinecone, results,
                   extracted_ids, id_list, query_vector, query_params,
                   pinecone_ret, n_calls,
                   sql_failures, index_dimension, sessionVars, configVars>>

\* Variant of Finally: the connection is closed on the paths that return
\* and left open when the try block is left by an exception.
Finally_OnlyOnReturn(n, o) == IF o.kind = "raise" THEN n ELSE n - 1

\* finally: if conn: conn.close() -- on every way out of the try block, o
\* being the way out
Finally(n, o) == n - 1

\* try: execute, fetchall, description, dicts / except sqlite3.Error /
\* finally: close
SqlExecute ==
    /\ pc = "sql_execute"
    /\ \E o \in SqlOutcomes(sql_query) :
          /\ sql_ret' = o
          /\ open_conns' = Finally(open_conns, o)
          /\ calls' = calls
                         \o (IF open_conns' < open_conns
                             THEN <<"conn_close">> ELSE <<>>)
                         \o <<IF o.kind = "raise"
                              THEN "sql_raise" ELSE "sql_return">>
    /\ pc' = "sql_done"
    /\ UNCHANGED <<sql_query, pinecone_query, use_pinecone, results,
                   extracted_ids, id_list, query_vector, query_params,
                   pinecone_ret, n_calls,
                   sql_failures, index_dimension, sessionVars, configVars>>

-----------------------------------------------------------------------------
(* execute_pinecone_query and get_embedding *)

TopK == 10
OPENAI_EMBEDDING_MODEL == "text-embedding-ada-002"

\* "Dimension for text-embedding-ada-002"
EXPECTED_DIMENSION == 1536

\* Dimensions the index "products" can have been created with.
IndexDimensions == {EXPECTED_DIMENSION, EXPECTED_DIMENSION \div 2}

PineconeTexts == {"", "   ", "durable off-road suspension", "soft\ntires"}

\* text.replace("\n", " ")
ReplaceNewlines(text) == IF text = "soft\ntires" THEN "soft tires" ELSE text

NoVector == [some |-> FALSE, model |-> "", input |-> "", dim |-> 0]

\* get_embedding: the embedding of the text, or None when the call to the
\* embedding service raises (ok = FALSE).
GetEmbedding(text, ok) ==
    IF ok
    THEN [some |-> TRUE, model |-> OPENAI_EMBEDDING_MODEL,
          input |-> ReplaceNewlines(text), dim |-> EXPECTED_DIMENSION]
    ELSE NoVector

\* Variant of EmbeddingMissing: the early return is never taken.
EmbeddingMissing_Never(vec) == FALSE

\* if not query_vector:
EmbeddingMissing(vec) == ~vec.some

\* Variant of BuildQueryParams: the filter is never added.
BuildQueryParams_NoFilter(vec, idl) ==
    [vector |-> vec, top_k |-> TopK, include_metadata |-> TRUE]

\* query_params, with the filter added under `if id_list:`
BuildQueryParams(vec, idl) ==
    LET base == [vector |-> vec, top_k |-> TopK, include_metadata |-> TRUE]
    IN IF idl.some /\ idl.ids # <<>>
       THEN DictSet(base, "filter", [id |-> DictSet(EmptyDict, "$in", idl.ids)])
       ELSE base

\* Identifiers of the vectors stored in the index "products".
IndexIds == {"p1", "42", "p9"}

\* What pc_index.query(**params) can answer: a ranked list of distinct
\* stored vectors, within top_k, restricted to the filter when there is one.
IndexAnswers(params) ==
    LET allowed == IF "filter" \in DOMAIN params
                   THEN IndexIds \cap Range(params["filter"].id["$in"])
                   ELSE IndexIds
        most == IF MaxMatches < params["top_k"] THEN MaxMatches
                ELSE params["top_k"]
    IN {m \in UNION {[1..k -> allowed] : k \in 0..most} :
           \A i, j \in 1..Len(m) : i # j => m[i] # m[j]}

EmbeddingError == [status |-> "error",
                   message |-> "Failed to generate embedding for Pinecone query."]

QueryError(msg) == [status |-> "error",
                    message |-> "Pinecone query failed: " \o msg]

QuerySuccess(matches) == [status |-> "success", data |-> [matches |-> matches]]

\* The index refuses a query vector whose dimension is not its own.
DimensionMismatch == "Vector dimension does not match the dimension of the index"

\* pc = Pinecone(api_key=PINECONE_API_KEY); pc_index = pc.Index("products"):
\* outside any try block. Without a key the client cannot be created; with
\* one, the handle is bound to the index as it exists, or the lookup fails.
PineconeClient ==
    /\ pc = "pinecone_client"
    /\ \/ /\ PINECONE_API_KEY
          /\ \E d \in IndexDimensions : index_dimension' = d
          /\ pc' = "pinecone_embed"
          /\ UNCHANGED <<pinecone_ret, calls>>
       \/ /\ pinecone_ret' = Raised("PineconeException",
                                    IF PINECONE_API_KEY
                                    THEN "index client unavailable"
                                    ELSE "no api key")
          /\ pc' = "raised"
          /\ Log("pinecone_raise")
          /\ UNCHANGED index_dimension
    /\ UNCHANGED <<sql_query, pinecone_query, use_pinecone, results,
                   extracted_ids, sql_ret, open_conns, id_list, query_vector,
                   query_params, n_calls, sql_failures, sessionVars,
                   configVars>>

\* query_vector = get_embedding(...); the early return; query_params
PineconeEmbed ==
    /\ pc = "pinecone_embed"
    /\ \E ok \in BOOLEAN :
          LET vec == GetEmbedding(pinecone_query, ok)
          IN /\ query_vector' = vec
             /\ IF EmbeddingMissing(vec)
                THEN /\ pinecone_ret' = Returned(EmbeddingError)
                     /\ calls' = calls \o <<"embed_call", "pinecone_return">>
                     /\ pc' = "pinecone_done"
                     /\ UNCHANGED query_params
                ELSE /\ query_params' = BuildQueryParams(vec, id_list)
                     /\ Log("embed_call")
                     /\ pc' = "pinecone_query"
                     /\ UNCHANGED pinecone_ret
    /\ UNCHANGED <<sql_query, pinecone_query, use_pinecone, results,
                   extracted_ids, sql_ret, open_conns, id_list, n_calls,
                   sql_failures, index_dimension, sessionVars, configVars>>

\* try: xc = pc_index.query(**query_params) ... except Exception
PineconeQuery ==
    /\ pc = "pinecone_query"
    /\ \/ /\ query_params["vector"].dim = index_dimension
          /\ \E m \in IndexAnswers(query_params) :
                pinecone_ret' = Returned(QuerySuccess(m))
       \/ /\ query_params["vector"].dim # index_dimension
          /\ pinecone_ret' = Returned(QueryError(DimensionMismatch))
       \/ pinecone_ret' = Returned(QueryError("index unavailable"))
    /\ calls' = calls \o <<"index_query", "pinecone_return">>
    /\ pc' = "pinecone_done"
    /\ UNCHANGED <<sql_query, pinecone_query, use_pinecone, results,
                   extracted_ids, sql_ret, open_conns, id_list, query_vector,
                   query_params, n_calls,
                   sql_failures, index_dimension, sessionVars, configVars>>

-----------------------------------------------------------------------------
(* execute_queries *)

\* Variant of Invoke: the semantic search is started before the SQL query.
Invoke_PineconeFirst(q, pq, up) ==
    /\ pc = "idle"
    /\ n_calls < MaxCalls
    /\ sql_query' = q
    /\ pinecone_query' = pq
    /\ use_pinecone' = up
    /\ results' = EmptyDict
    /\ extracted_ids' = <<>>
    /\ sql_ret' = NoOutcome
    /\ pinecone_ret' = NoOutcome
    /\ id_list' = None
    /\ query_vector' = NoVector
    /\ query_params' = EmptyDict
    /\ IF up /\ pq # ""
       THEN calls' = <<"pinecone_call">> /\ pc' = "pinecone_client"
       ELSE calls' = <<"sql_call">> /\ pc' = "sql_connect"
    /\ n_calls' = n_calls + 1
    /\ index_dimension' = 0
    /\ UNCHANGED <<open_conns, sql_failures, sessionVars, configVars>>

\* "If the sql search has failed for 3 times, try only using pinecone
\* search." (item 7 of the system prompt)
FailureLimit == 3

\* Variant of Invoke: the tool counts the failures and, from the limit on,
\* goes to the semantic search without running the SQL query.
Invoke_FallbackAfterLimit(q, pq, up) ==
    /\ pc = "idle"
    /\ n_calls < MaxCalls
    /\ sql_query' = q
    /\ pinecone_query' = pq
    /\ use_pinecone' = up
    /\ results' = EmptyDict
    /\ extracted_ids' = <<>>
    /\ sql_ret' = NoOutcome
    /\ pinecone_ret' = NoOutcome
    /\ id_list' = None
    /\ query_vector' = NoVector
    /\ query_params' = EmptyDict
    /\ IF sql_failures >= FailureLimit
       THEN calls' = <<"pinecone_call">> /\ pc' = "pinecone_client"
       ELSE calls' = <<"sql_call">> /\ pc' = "sql_connect"
    /\ n_calls' = n_calls + 1
    /\ index_dimension' = 0
    /\ UNCHANGED <<open_conns, sql_failures, sessionVars, configVars>>

\* Variant of Invoke: results and extracted_ids live across the calls
\* instead of being created in each call.
Invoke_KeepsResults(q, pq, up) ==
    /\ pc = "idle"
    /\ n_calls < MaxCalls
    /\ sql_query' = q
    /\ pinecone_query' = pq
    /\ use_pinecone' = up
    /\ sql_ret' = NoOutcome
    /\ pinecone_ret' = NoOutcome
    /\ id_list' = None
    /\ query_vector' = NoVector
    /\ query_params' = EmptyDict
    /\ calls' = <<"sql_call">>
    /\ n_calls' = n_calls + 1
    /\ pc' = "sql_connect"
    /\ index_dimension' = 0
    /\ UNCHANGED <<results, extracted_ids, open_conns, sql_failures,
                   sessionVars, configVars>>

\* The planner calls the tool: results = {}, extracted_ids = [], and the
\* call of execute_sql_query.
Invoke(q, pq, up) ==
    /\ pc = "idle"
    /\ n_calls < MaxCalls
    /\ sql_query' = q
    /\ pinecone_query' = pq
    /\ use_pinecone' = up
    /\ results' = EmptyDict
    /\ extracted_ids' = <<>>
    /\ sql_ret' = NoOutcome
    /\ pinecone_ret' = NoOutcome
    /\ id_list' = None
    /\ query_vector' = NoVector
    /\ query_params' = EmptyDict
    /\ calls' = <<"sql_call">>
    /\ n_calls' = n_calls + 1
    /\ pc' = "sql_connect"
    /\ index_dimension' = 0
    /\ UNCHANGED <<open_conns, sql_failures, sessionVars, configVars>>

\* Variant of SqlSucceeded: the "error" field of the first row is not
\* looked at.
SqlSucceeded_AnyRows(rows) == rows # <<>>

\* sql_query_results and isinstance(..., list) and "error" not in ...[0]
SqlSucceeded(rows) == rows # <<>> /\ "error" \notin DOMAIN rows[1]

\* Variant of HasId: the None check is forgotten.
HasId_NoNoneCheck(row) == "id" \in DOMAIN row

\* "id" in row and row["id"] is not None
HasId(row) == "id" \in DOMAIN row /\ row["id"] # Null

\* for row in sql_query_results: ... extracted_ids.append(str(row["id"]))
RECURSIVE ExtractIds(_)
ExtractIds(rows) ==
    IF rows = <<>> THEN <<>>
    ELSE LET front == ExtractIds(SubSeq(rows, 1, Len(rows) - 1))
             row == rows[Len(rows)]
         IN IF HasId(row) THEN Append(front, PyStr(row["id"])) ELSE front

\* what the SQL section appends to extracted_ids
IdsAfterSql(ret) ==
    IF ret.kind = "return" /\ SqlSucceeded(ret.value)
    THEN ExtractIds(ret.value)
    ELSE <<>>

\* Variant of SqlSection: the identifier list is put in results whenever
\* the executor returned, empty or not.
SqlSection_IdsAlways(ret) ==
    IF ret.kind = "raise"
    THEN [sql_results |-> [status |-> "error",
                           message |-> "SQL execution failed: " \o ret.msg]]
    ELSE IF SqlSucceeded(ret.value)
    THEN [sql_results |-> [status |-> "success", data |-> ret.value],
          extracted_ids_for_pinecone |-> ExtractIds(ret.value)]
    ELSE [sql_results |-> [status |-> "error", data |-> ret.value],
          extracted_ids_for_pinecone |-> <<>>]

\* the entries the SQL section (the try/except around execute_sql_query)
\* sets in results
SqlSection(ret) ==
    IF ret.kind = "raise"
    THEN [sql_results |-> [status |-> "error",
                           message |-> "SQL execution failed: " \o ret.msg]]
    ELSE IF SqlSucceeded(ret.value)
    THEN LET r == [sql_results |-> [status |-> "success", data |-> ret.value]]
             ids == ExtractIds(ret.value)
         IN IF ids # <<>>
            THEN DictSet(r, "extracted_ids_for_pinecone", ids)
            ELSE r
    ELSE [sql_results |-> [status |-> "error", data |-> ret.value]]

\* Variant of ShortCircuit: an exception does not end the call.
ShortCircuit_Never(ret) == FALSE

\* Variant of ShortCircuit: any structured failure ends the call.
ShortCircuit_OnAnyFailure(ret) ==
    ret.kind = "raise" \/ ~SqlSucceeded(ret.value)

\* the `return results` of the except branch
ShortCircuit(ret) == ret.kind = "raise"

\* Variant of PineconeRequested: the flag is ignored.
PineconeRequested_Always(up) == TRUE

\* if use_pinecone:
PineconeRequested(up) == up

\* if not pinecone_query: ... else:
QueryTextGiven(pq) == pq # ""

\* Variant of IdListArg: the list is passed as it is, empty or not.
IdListArg_AsIs(ids) == Some(ids)

\* id_list=extracted_ids if extracted_ids else None
IdListArg(ids) == IF ids # <<>> THEN Some(ids) ELSE None

PineconeWarning ==
    [status |-> "warning",
     message |-> "Pinecone search was indicated but no query text was provided."]

\* From the return of execute_sql_query to the call of
\* execute_pinecone_query, or to the return of the envelope.
AfterSql ==
    /\ pc = "sql_done"
    /\ extracted_ids' = extracted_ids \o IdsAfterSql(sql_ret)
    /\ LET after_sql == DictUpdate(results, SqlSection(sql_ret))
       IN IF ShortCircuit(sql_ret) \/ ~PineconeRequested(use_pinecone)
          THEN /\ results' = after_sql
               /\ pc' = "done"
               /\ UNCHANGED <<id_list, calls>>
          ELSE IF ~QueryTextGiven(pinecone_query)
          THEN /\ results' = DictSet(after_sql, "pinecone_results",
                                     PineconeWarning)
               /\ pc' = "done"
               /\ UNCHANGED <<id_list, calls>>
          ELSE /\ results' = after_sql
               /\ id_list' = IdListArg(extracted_ids')
               /\ Log("pinecone_call")
               /\ pc' = "pinecone_client"
    /\ UNCHANGED <<sql_query, pinecone_query, use_pinecone, sql_ret,
                   open_conns, query_vector, query_params, pinecone_ret,
                   n_calls, sql_failures, index_dimension, sessionVars,
                   configVars>>

\* results["pinecone_results"] = pinecone_data; return results
AfterPinecone ==
    /\ pc = "pinecone_done"
    /\ results' = DictSet(results, "pinecone_results", pinecone_ret.value)
    /\ pc' = "done"
    /\ UNCHANGED <<sql_query, pinecone_query, use_pinecone, extracted_ids,
                   sql_ret, open_conns, id_list, query_vector, query_params,
                   pinecone_ret, calls, n_calls,
                   sql_failures, index_dimension, sessionVars, configVars>>

\* The sql_results section of an envelope reports a failure.
StructuredFailed(res) ==
    "sql_results" \in DOMAIN res /\ res["sql_results"].status = "error"

\* The planner takes the envelope of the finished call and may call the
\* tool again; an exception of the tool is not handled by the agent
\* executor and ends the turn.
ToolReturn ==
    /\ pc \in {"done", "raised"}
    /\ IF pc = "raised"
       THEN /\ pc' = "aborted"
            /\ UNCHANGED sql_failures
       ELSE /\ pc' = "idle"
            /\ sql_failures' = IF StructuredFailed(results)
                               THEN sql_failures + 1
                               ELSE 0
    /\ UNCHANGED <<sql_query, pinecone_query, use_pinecone, results,
                   extracted_ids, sql_ret, open_conns, id_list, query_vector,
                   query_params, pinecone_ret, calls, n_calls,
                   index_dimension, sessionVars, configVars>>

-----------------------------------------------------------------------------
(* The sessions: the chat turn handler of app.py and run_chatbot *)

AppHistoryCap == 20
CliHistoryCap == 10

HumanMessage(c) == [type |-> "human", content |-> c]
AIMessage(c) == [type |-> "ai", content |-> c]

\* The question typed in turn t and the answer the agent gives to it.
Question(t) == "q" \o NatToStr(t)
Answer(t) == "a" \o NatToStr(t)

OutputChunk(text) == [key |-> "output", text |-> text]
StepChunk == [key |-> "steps", text |-> ""]

\* The callbacks the agent executor makes on the handler while the stream
\* is consumed.
NewToken(text) == [key |-> "token", text |-> text]
LlmEnd == [key |-> "llm_end", text |-> ""]

\* What consuming agent_executor.stream(...) brings for turn t when nothing
\* raises, in the order it happens: the handler's callbacks for each call of
\* the language model, intermediate chunks without "output", and the answer
\* in output chunks.
Streams(t) ==
    {<<NewToken("a"), NewToken(NatToStr(t)), LlmEnd, OutputChunk(Answer(t))>>,
     <<NewToken("s"), LlmEnd, StepChunk, NewToken(Answer(t)), LlmEnd,
       OutputChunk(Answer(t))>>,
     <<NewToken("a"), LlmEnd, OutputChunk("a"), StepChunk,
       NewToken(NatToStr(t)), LlmEnd, OutputChunk(NatToStr(t))>>}

\* h[-cap:]
LastN(h, cap) ==
    IF Len(h) <= cap THEN h ELSE SubSeq(h, Len(h) - cap + 1, Len(h))

\* Variant of Truncate: the oldest messages are kept, h[:cap].
Truncate_KeepOldest(h, cap) == IF Len(h) > cap THEN SubSeq(h, 1, cap) ELSE h

\* if len(chat_history) > cap: chat_history = chat_history[-cap:]
Truncate(h, cap) == IF Len(h) > cap THEN LastN(h, cap) ELSE h

\* Variant of PriorTurns: the whole history is handed over.
PriorTurns_Whole(h) == h

\* st.session_state.chat_history[:-1]
PriorTurns(h) == SubSeq(h, 1, Len(h) - 1)

\* Variant of Accumulate: the chunk replaces what was accumulated.
Accumulate_LastOnly(acc, chunk) ==
    IF chunk.key = "output" THEN chunk.text ELSE acc

\* if "output" in chunk and isinstance(chunk["output"], str):
\*     full_response += chunk["output"]
Accumulate(acc, chunk) ==
    IF chunk.key = "output" THEN acc \o chunk.text ELSE acc

\* ''.join(self.tokens)
RECURSIVE JoinTokens(_)
JoinTokens(ts) ==
    IF ts = <<>> THEN ""
    ELSE JoinTokens(SubSeq(ts, 1, Len(ts) - 1)) \o ts[Len(ts)]

\* The cursor character the handler puts after the text while it streams.
Cursor == "|"

\* app.py, `if user_query:` down to the creation of the handler and of the
\* stream
AppUserQuery ==
    /\ surface = "app"
    /\ phase = "idle"
    /\ turn < MaxTurns
    /\ LET q == Question(turn + 1)
       IN IF ~agent_executor
          THEN /\ delivered' = "not_initialized"
               /\ UNCHANGED <<chat_history, phase, user_query, full_response,
                              stream, turn, transcript, planner_history,
                              tokens, display, arrived>>
          ELSE /\ chat_history' = Append(chat_history, HumanMessage(q))
               /\ transcript' = Append(transcript, HumanMessage(q))
               /\ user_query' = q
               /\ tokens' = <<>>
               /\ display' = ""
               /\ arrived' = <<>>
               /\ planner_history' = PriorTurns(chat_history')
               /\ full_response' = ""
               /\ turn' = turn + 1
               /\ \E c \in Streams(turn + 1) : stream' = c
               /\ phase' = "streaming"
               /\ delivered' = "none"
    /\ UNCHANGED <<surface, agent_executor, toolVars, configVars>>

\* StreamlitCallbackHandler.on_llm_new_token
AppNewToken ==
    /\ surface = "app"
    /\ phase = "streaming"
    /\ stream # <<>>
    /\ Head(stream).key = "token"
    /\ tokens' = Append(tokens, Head(stream).text)
    /\ display' = JoinTokens(tokens') \o Cursor
    /\ arrived' = Append(arrived, Head(stream))
    /\ stream' = Tail(stream)
    /\ UNCHANGED <<surface, agent_executor, chat_history, phase, user_query,
                   full_response, turn, delivered, transcript,
                   planner_history, toolVars, configVars>>

\* StreamlitCallbackHandler.on_llm_end
AppLlmEnd ==
    /\ surface = "app"
    /\ phase = "streaming"
    /\ stream # <<>>
    /\ Head(stream).key = "llm_end"
    /\ display' = JoinTokens(tokens)
    /\ arrived' = Append(arrived, Head(stream))
    /\ stream' = Tail(stream)
    /\ UNCHANGED <<surface, agent_executor, chat_history, phase, user_query,
                   full_response, turn, delivered, transcript,
                   planner_history, tokens, toolVars, configVars>>

\* for chunk in stream: if "output" in chunk and isinstance(..., str): +=
AppStreamChunk ==
    /\ surface = "app"
    /\ phase = "streaming"
    /\ stream # <<>>
    /\ Head(stream).key \in {"steps", "output"}
    /\ full_response' = Accumulate(full_response, Head(stream))
    /\ arrived' = Append(arrived, Head(stream))
    /\ stream' = Tail(stream)
    /\ UNCHANGED <<surface, agent_executor, chat_history, phase, user_query,
                   turn, delivered, transcript, planner_history, tokens,
                   display, toolVars, configVars>>

\* The stream is exhausted: the assistant message is appended and the
\* history is cut to the cap. The script run ends and its handler with it.
AppStreamEnd ==
    /\ surface = "app"
    /\ phase = "streaming"
    /\ stream = <<>>
    /\ chat_history' = Truncate(Append(chat_history, AIMessage(full_response)),
                                AppHistoryCap)
    /\ transcript' = Append(transcript, AIMessage(full_response))
    /\ phase' = "idle"
    /\ delivered' = "answer"
    /\ planner_history' = <<>>
    /\ tokens' = <<>>
    /\ display' = ""
    /\ UNCHANGED <<surface, agent_executor, user_query, full_response, stream,
                   turn, arrived, toolVars, configVars>>

\* The planner or a tool raises while the stream is consumed: nothing in
\* app.py catches it and the script run ends there.
AppStreamRaise ==
    /\ surface = "app"
    /\ phase = "streaming"
    /\ stream # <<>>
    /\ phase' = "idle"
    /\ stream' = <<>>
    /\ delivered' = "exception"
    /\ planner_history' = <<>>
    /\ tokens' = <<>>
    /\ display' = ""
    /\ arrived' = <<>>
    /\ UNCHANGED <<surface, agent_executor, chat_history, user_query,
                   full_response, turn, transcript, toolVars, configVars>>

CliInputs(t) == {"exit", "   ", Question(t)}

\* "   ".strip() is empty
IsBlank(text) == text = "   "

\* run_chatbot: input(), the exit and blank checks, the call of invoke
\* with chat_history as it stands
CliInput ==
    /\ surface = "cli"
    /\ phase = "idle"
    /\ agent_executor
    /\ \E text \in CliInputs(turn + 1) :
          IF text = "exit"
          THEN /\ phase' = "exited"
               /\ UNCHANGED <<user_query, turn, delivered, planner_history>>
          ELSE IF IsBlank(text)
          THEN UNCHANGED <<phase, user_query, turn, delivered, planner_history>>
          ELSE /\ turn < MaxCliTurns
               /\ phase' = "invoking"
               /\ user_query' = text
               /\ planner_history' = chat_history
               /\ turn' = turn + 1
               /\ delivered' = "none"
    /\ UNCHANGED <<surface, agent_executor, chat_history, full_response,
                   stream, transcript, tokens, display, arrived, toolVars,
                   configVars>>

DefaultOutput == "Sorry, I couldn't process that request."

\* What agent_executor.invoke(...) can return for turn t: a dict with the
\* answer under "output", or one without that key.
Responses(t) == {[output |-> Answer(t)], [log |-> "no output"]}

\* response.get("output", "Sorry, ...")
GetOutput(response) ==
    IF "output" \in DOMAIN response THEN response["output"] ELSE DefaultOutput

\* invoke returns: both messages are appended and the history is cut
CliInvokeReturn ==
    /\ surface = "cli"
    /\ phase = "invoking"
    /\ \E response \in Responses(turn) :
          LET ai_response == GetOutput(response)
              added == <<HumanMessage(user_query), AIMessage(ai_response)>>
          IN /\ chat_history' = Truncate(chat_history \o added, CliHistoryCap)
             /\ transcript' = transcript \o added
    /\ phase' = "idle"
    /\ delivered' = "answer"
    /\ planner_history' = <<>>
    /\ UNCHANGED <<surface, agent_executor, user_query, full_response, stream,
                   turn, tokens, display, arrived, toolVars, configVars>>

\* invoke raises: except Exception prints the error, nothing is appended
CliInvokeRaise ==
    /\ surface = "cli"
    /\ phase = "invoking"
    /\ phase' = "idle"
    /\ delivered' = "error_printed"
    /\ planner_history' = <<>>
    /\ UNCHANGED <<surface, agent_executor, chat_history, user_query,
                   full_response, stream, turn, transcript, tokens, display,
                   arrived, toolVars, configVars>>

\* create_chatbot_agent_executor: None without the tool, else an executor
create_chatbot_agent_executor(tool) == tool

\* The start of app.py and of chatbot.py's __main__: an executor is created
\* when OPENAI_API_KEY is set and the tool execute_queries was imported.
StartAgent(openai_key, tool) ==
    IF openai_key /\ tool THEN create_chatbot_agent_executor(tool) ELSE FALSE

-----------------------------------------------------------------------------
(* Specifications *)

ToolInit ==
    /\ pc = "idle"
    /\ sql_query = ""
    /\ pinecone_query = ""
    /\ use_pinecone = FALSE
    /\ results = EmptyDict
    /\ extracted_ids = <<>>
    /\ sql_ret = NoOutcome
    /\ open_conns = 0
    /\ id_list = None
    /\ query_vector = NoVector
    /\ query_params = EmptyDict
    /\ pinecone_ret = NoOutcome
    /\ calls = <<>>
    /\ n_calls = 0
    /\ sql_failures = 0
    /\ index_dimension = 0

SessionInit(s, a) ==
    /\ surface = s
    /\ agent_executor = a
    /\ chat_history = <<>>
    /\ phase = "idle"
    /\ user_query = ""
    /\ full_response = ""
    /\ stream = <<>>
    /\ turn = 0
    /\ delivered = "none"
    /\ transcript = <<>>
    /\ planner_history = <<>>
    /\ tokens = <<>>
    /\ display = ""
    /\ arrived = <<>>

\* The keys as load_dotenv() and os.getenv left them.
Config(openai_key, pinecone_key) ==
    /\ OPENAI_API_KEY = openai_key
    /\ PINECONE_API_KEY = pinecone_key

Init ==
    /\ ToolInit
    /\ SessionInit("app", TRUE)
    /\ \E pinecone_key \in BOOLEAN : Config(TRUE, pinecone_key)

Next ==
    \/ \E q \in Queries, pq \in PineconeTexts, up \in BOOLEAN : Invoke(q, pq, up)
    \/ SqlConnect
    \/ SqlExecute
    \/ AfterSql
    \/ PineconeClient
    \/ PineconeEmbed
    \/ PineconeQuery
    \/ AfterPinecone
    \/ ToolReturn

Spec == Init /\ [][Next]_vars

SessionStart ==
    /\ ToolInit
    /\ \E s \in {"app", "cli"}, openai_key \in BOOLEAN,
          pinecone_key \in BOOLEAN, tool \in BOOLEAN :
          /\ Config(openai_key, pinecone_key)
          /\ SessionInit(s, StartAgent(openai_key, tool))

SessionNext ==
    \/ AppUserQuery
    \/ AppNewToken
    \/ AppLlmEnd
    \/ AppStreamChunk
    \/ AppStreamEnd
    \/ AppStreamRaise
    \/ CliInput
    \/ CliInvokeReturn
    \/ CliInvokeRaise

SessionSpec == SessionStart /\ [][SessionNext]_vars

-----------------------------------------------------------------------------
(* Properties *)

SqlEvents == {"sql_call", "sql_return", "sql_raise"}
PineconeEvents == {"pinecone_call", "embed_call", "index_query",
                   "pinecone_return", "pinecone_raise"}
PineconeStages == {"pinecone_client", "pinecone_embed", "pinecone_query",
                   "pinecone_done"}

\* The SQL section of the current call has run.
PastSql == pc \in PineconeStages \cup {"done", "raised"}

Occurs(e) == \E i \in 1..Len(calls) : calls[i] = e
Count(e) == Cardinality({i \in 1..Len(calls) : calls[i] = e})

\* The text of an identifier value, written out value by value.
IdText(v) ==
    CASE v = StrV("p1") -> "p1"
      [] v = StrV("p2") -> "p2"
      [] v = IntV(42) -> "42"

\* The identifiers of the rows that have a non-null "id", in row order.
IdsOf(rows) ==
    LET kept == SelectSeq(rows, LAMBDA r : "id" \in DOMAIN r /\ r["id"].t # "null")
    IN [i \in 1..Len(kept) |-> IdText(kept[i]["id"])]

\* A returned structured result that is an empty list or an error row.
TypedFailure ==
    /\ sql_ret.kind = "return"
    /\ \/ Len(sql_ret.value) = 0
       \/ "error" \in DOMAIN sql_ret.value[1]

StructuredSuccess ==
    /\ sql_ret.kind = "return"
    /\ Len(sql_ret.value) > 0
    /\ "error" \notin DOMAIN sql_ret.value[1]

\* C1: within one call of execute_queries every event of the semantic
\* executor comes after execute_sql_query has returned, no event of the
\* structured executor follows it, and while the semantic executor runs the
\* structured executor has returned and holds no connection.
C1_StructuredFirst ==
    /\ \A i \in 1..Len(calls) :
          calls[i] \in PineconeEvents =>
             /\ \E j \in 1..(i - 1) : calls[j] = "sql_return"
             /\ \A k \in (i + 1)..Len(calls) : calls[k] \notin SqlEvents
    /\ pc \in PineconeStages => sql_ret.kind = "return" /\ open_conns = 0

C1_Witness ==
    pc = "done" /\ use_pinecone /\ Occurs("sql_return") /\ Occurs("index_query")

\* C2: when execute_sql_query raises, the semantic executor is never
\* invoked and the returned envelope holds only sql_results, with status
\* "error" and a message, whatever use_pinecone and pinecone_query are.
C2_HardFailureShortCircuit ==
    sql_ret.kind = "raise" =>
       /\ pc \in {"sql_done", "done", "idle"}
       /\ \A i \in 1..Len(calls) : calls[i] \notin PineconeEvents
       /\ pc = "done" =>
             /\ DOMAIN results = {"sql_results"}
             /\ DOMAIN results["sql_results"] = {"status", "message"}
             /\ results["sql_results"].status = "error"
             /\ results["sql_results"].message
                   = "SQL execution failed: " \o sql_ret.msg
             /\ extracted_ids = <<>>

C2_Witness ==
    /\ pc = "done"
    /\ sql_ret.kind = "raise"
    /\ use_pinecone
    /\ pinecone_query # ""

\* C3: when execute_sql_query returns an empty list or an error row, the
\* envelope records status "error" with that result for sql_results, and
\* with use_pinecone true and a non-empty pinecone_query the semantic
\* executor is invoked and the envelope returned holds its result.
C3_TypedFailureStillSearches ==
    (TypedFailure /\ PastSql) =>
       /\ results["sql_results"].status = "error"
       /\ results["sql_results"].data = sql_ret.value
       /\ (use_pinecone /\ pinecone_query # "") =>
             /\ Count("pinecone_call") = 1
             /\ pc = "done" =>
                   /\ pinecone_ret.kind = "return"
                   /\ "pinecone_results" \in DOMAIN results
                   /\ results["pinecone_results"] = pinecone_ret.value

C3_Witness ==
    /\ pc = "done"
    /\ TypedFailure
    /\ use_pinecone
    /\ pinecone_query # ""
    /\ results["pinecone_results"].status = "success"

\* C4: for a structured result marked "success", the extracted list is the
\* text of row["id"] of exactly the rows with a non-null id, in row order
\* and with duplicates kept; it is the list put in the envelope.
C4_IdentifierExtraction ==
    (PastSql /\ results["sql_results"].status = "success") =>
       /\ extracted_ids = IdsOf(results["sql_results"].data)
       /\ extracted_ids # <<>> =>
             results["extracted_ids_for_pinecone"]
                = IdsOf(results["sql_results"].data)

C4_Witness ==
    /\ pc = "done"
    /\ results["sql_results"].status = "success"
    /\ Len(results["sql_results"].data) = 2
    /\ "id" \in DOMAIN results["sql_results"].data[1]
    /\ results["sql_results"].data[1]["id"] = Null
    /\ extracted_ids = <<"42">>

\* C5: when the structured result yields no identifier and use_pinecone is
\* true with a non-empty pinecone_query, execute_pinecone_query is invoked
\* exactly once, with id_list = None, and a query sent to the index carries
\* no filter.
C5_UnscopedFallback ==
    (/\ PastSql
     /\ sql_ret.kind = "return"
     /\ (StructuredSuccess => IdsOf(sql_ret.value) = <<>>)
     /\ use_pinecone
     /\ pinecone_query # "") =>
       /\ Count("pinecone_call") = 1
       /\ id_list = None
       /\ Occurs("index_query") => "filter" \notin DOMAIN query_params

C5_Witness ==
    /\ pc = "done"
    /\ StructuredSuccess
    /\ extracted_ids = <<>>
    /\ use_pinecone
    /\ Occurs("index_query")
    /\ "filter" \notin DOMAIN query_params

\* C6: with use_pinecone true and an empty pinecone_query the semantic
\* executor is never invoked and the returned envelope has a
\* pinecone_results section with status "warning".
C6_EmptyQueryWarning ==
    (use_pinecone /\ pinecone_query = "") =>
       /\ \A i \in 1..Len(calls) : calls[i] \notin PineconeEvents
       /\ pc = "done" =>
             /\ "pinecone_results" \in DOMAIN results
             /\ results["pinecone_results"].status = "warning"

\* C7: with use_pinecone false the envelope never gets a pinecone_results
\* section and neither the embedding service nor the index is called,
\* whatever pinecone_query and the structured outcome are.
C7_NoSemanticWhenNotRequested ==
    (~use_pinecone /\ pc # "idle") =>
       /\ "pinecone_results" \notin DOMAIN results
       /\ \A i \in 1..Len(calls) : calls[i] \notin PineconeEvents
       /\ pc \notin PineconeStages \cup {"raised"}

C7_Witness ==
    /\ pc = "done"
    /\ ~use_pinecone
    /\ pinecone_query # ""
    /\ StructuredSuccess
    /\ extracted_ids # <<>>

\* C8: when the structured query succeeds with identifiers and use_pinecone
\* is true with a non-empty pinecone_query, execute_pinecone_query gets
\* exactly the extracted identifiers as id_list, the index query filters on
\* them, and the returned envelope holds the rows as the executor returned
\* them, the identifier list and the semantic executor's result.
C8_ScopedSearchEnvelope ==
    (/\ PastSql
     /\ StructuredSuccess
     /\ IdsOf(sql_ret.value) # <<>>
     /\ use_pinecone
     /\ pinecone_query # "") =>
       /\ Count("pinecone_call") = 1
       /\ id_list = Some(IdsOf(sql_ret.value))
       /\ Occurs("index_query") =>
             /\ "filter" \in DOMAIN query_params
             /\ DOMAIN query_params["filter"] = {"id"}
             /\ DOMAIN query_params["filter"].id = {"$in"}
             /\ query_params["filter"].id["$in"] = IdsOf(sql_ret.value)
       /\ pc = "done" =>
             /\ DOMAIN results = {"sql_results", "extracted_ids_for_pinecone",
                                  "pinecone_results"}
             /\ results["sql_results"].status = "success"
             /\ results["sql_results"].data = sql_ret.value
             /\ results["extracted_ids_for_pinecone"] = IdsOf(sql_ret.value)
             /\ results["pinecone_results"] = pinecone_ret.value

C8_Witness ==
    /\ pc = "done"
    /\ StructuredSuccess
    /\ extracted_ids = <<"p1", "p2">>
    /\ use_pinecone
    /\ results["pinecone_results"].status = "success"
    /\ results["pinecone_results"].data.matches = <<"p1">>

Min(a, b) == IF a < b THEN a ELSE b

\* The cap of the running session: 20 in app.py, 10 in run_chatbot.
Cap == IF surface = "app" THEN AppHistoryCap ELSE CliHistoryCap

\* C9: after every completed exchange the retained history has at most 20
\* messages and is the most recent messages of the whole conversation,
\* unaltered and in their order.
C9_HistoryBound ==
    (phase = "idle" /\ delivered = "answer") =>
       /\ Len(chat_history) <= 20
       /\ Len(chat_history) = Min(Len(transcript), Cap)
       /\ \A i \in 1..Len(chat_history) :
             chat_history[i]
                = transcript[Len(transcript) - Len(chat_history) + i]

C9_Witness ==
    /\ surface = "app"
    /\ phase = "idle"
    /\ delivered = "answer"
    /\ Len(transcript) = 22
    /\ Len(chat_history) = 20
    /\ chat_history[1] = HumanMessage("q2")
    /\ chat_history[20] = AIMessage("a11")

\* C10: execute_sql_query never leaves by an exception: whatever the query
\* and the failure of the store, it returns a value.
C10_SqlNeverRaises == sql_ret.kind # "raise"

\* C11: execute_pinecone_query never leaves by an exception: a failure to
\* create the index client, to embed the text or to query the index is
\* returned as a value with status "error", anything else as "success".
C11_PineconeNeverRaises ==
    /\ pc # "raised"
    /\ pinecone_ret.kind # "raise"
    /\ pinecone_ret.kind = "return" =>
          pinecone_ret.value.status \in {"error", "success"}

\* C12: every turn handed to the agent ends with the caller getting the
\* answer or an error message of the session; a failure of the planner or
\* of a tool never leaves the turn handler as an exception.
C12_TurnAnsweredOrReported ==
    (phase = "idle" /\ turn > 0) => delivered \in {"answer", "error_printed"}

\* C13: when the dimension of the index differs from the dimension of the
\* embedding, no query is sent to the index.
C13_DimensionGate ==
    (index_dimension # 0 /\ index_dimension # EXPECTED_DIMENSION) =>
       ~Occurs("index_query")

\* C14: with the OpenAI key or the Pinecone key missing at startup no agent
\* executor exists and no query is ever handed to the planner.
C14_NoStartWithoutCredentials ==
    (~OPENAI_API_KEY \/ ~PINECONE_API_KEY) =>
       /\ ~agent_executor
       /\ phase \notin {"streaming", "invoking"}
       /\ turn = 0

\* The texts of the events of one kind in a log, joined in their order.
RECURSIVE TextOf(_, _)
TextOf(kind, log) ==
    IF log = <<>> THEN ""
    ELSE LET e == log[Len(log)]
             front == TextOf(kind, SubSeq(log, 1, Len(log) - 1))
         IN IF e.key = kind THEN front \o e.text ELSE front

\* C15: while a turn streams, the accumulated response is the output chunks
\* that arrived, joined in arrival order, and the text on display is the
\* tokens that arrived, joined in arrival order (followed by the cursor
\* right after a token); the assistant message stored at the end of the turn is
\* the join of all the output chunks of the stream.
C15_StreamedText ==
    /\ phase = "streaming" =>
          /\ full_response = TextOf("output", arrived)
          /\ display = IF arrived # <<>> /\ arrived[Len(arrived)].key = "token"
                       THEN TextOf("token", arrived) \o Cursor
                       ELSE TextOf("token", arrived)
    /\ (surface = "app" /\ phase = "idle" /\ delivered = "answer") =>
          /\ chat_history # <<>>
          /\ chat_history[Len(chat_history)]
                = AIMessage(TextOf("output", arrived))

C15_Witness ==
    /\ surface = "app"
    /\ phase = "idle"
    /\ delivered = "answer"
    /\ Len(SelectSeq(arrived, LAMBDA e : e.key = "output")) = 2
    /\ Len(SelectSeq(arrived, LAMBDA e : e.key = "token")) = 2
    /\ chat_history[Len(chat_history)] = AIMessage("a3")

AfterRepeatedFailure ==
    sql_failures >= FailureLimit /\ pc \notin {"idle", "aborted"}

\* C17 as stated: once the structured path has failed three times in a row
\* in a turn, a later retrieval of the turn does not use the structured
\* executor.
C17_SemanticOnlyAfterThree ==
    AfterRepeatedFailure => \A i \in 1..Len(calls) : calls[i] \notin SqlEvents

\* C17, amended: the fallback is an instruction of the planner's prompt and
\* nothing in the tool follows it: a call made after three structured
\* failures in a row still runs the SQL query first, reaches the semantic
\* executor only after execute_sql_query has returned, and never when it
\* raised.
C17_StructuredStillFirst ==
    AfterRepeatedFailure =>
       /\ calls # <<>>
       /\ calls[1] = "sql_call"
       /\ \A i \in 1..Len(calls) :
             calls[i] \in PineconeEvents =>
                \E j \in 1..(i - 1) : calls[j] = "sql_return"
       /\ sql_ret.kind = "raise" =>
             \A i \in 1..Len(calls) : calls[i] \notin PineconeEvents

C17_Witness ==
    /\ sql_failures = 3
    /\ n_calls = 4
    /\ pc = "done"
    /\ Occurs("sql_return")
    /\ Occurs("index_query")

\* The envelope as a function of the arguments of the call and of what the
\* two executors answered in it.
EnvelopeOf(pq, up, sret, pret) ==
    LET ok == /\ sret.kind = "return"
              /\ Len(sret.value) > 0
              /\ "error" \notin DOMAIN sret.value[1]
        ids == IF ok THEN IdsOf(sret.value) ELSE <<>>
        keys == {"sql_results"}
                   \cup (IF ids # <<>> THEN {"extracted_ids_for_pinecone"} ELSE {})
                   \cup (IF sret.kind = "return" /\ up
                         THEN {"pinecone_results"} ELSE {})
    IN [k \in keys |->
          CASE k = "sql_results" ->
                  (IF sret.kind = "raise"
                   THEN [status |-> "error",
                         message |-> "SQL execution failed: " \o sret.msg]
                   ELSE IF ok
                   THEN [status |-> "success", data |-> sret.value]
                   ELSE [status |-> "error", data |-> sret.value])
            [] k = "extracted_ids_for_pinecone" -> ids
            [] k = "pinecone_results" ->
                  (IF pq = "" THEN PineconeWarning ELSE pret.value)]

\* C18: the envelope a call returns is determined by the arguments of the
\* call and the answers of the executors in it, whatever calls were made
\* before in the turn: two calls with equal arguments and equal answers
\* return equal envelopes.
C18_Stateless ==
    pc = "done" =>
       results = EnvelopeOf(pinecone_query, use_pinecone, sql_ret, pinecone_ret)

C18_Witness ==
    /\ pc = "done"
    /\ n_calls = 3
    /\ sql_failures = 2
    /\ StructuredSuccess
    /\ DOMAIN results = {"sql_results"}

\* C19: with use_pinecone true and a pinecone_query of blanks only, the
\* semantic executor is not invoked and the envelope gets the warning,
\* exactly as for the empty string.
C19_BlankQueryWarning ==
    (use_pinecone /\ pinecone_query = "   ") =>
       /\ \A i \in 1..Len(calls) : calls[i] \notin PineconeEvents
       /\ (pc = "done" /\ sql_ret.kind = "return") =>
             /\ "pinecone_results" \in DOMAIN results
             /\ results["pinecone_results"] = PineconeWarning

\* C20: when get_embedding gives no vector, execute_pinecone_query returns
\* the embedding error at once and the index is not queried in that call.
C20_EmbeddingFailureStops ==
    (Occurs("embed_call") /\ ~query_vector.some) =>
       /\ ~Occurs("index_query")
       /\ pc \in {"pinecone_done", "done", "idle"}
       /\ pinecone_ret = Returned(EmbeddingError)
       /\ query_params = EmptyDict

C20_Witness ==
    /\ pc = "done"
    /\ Occurs("embed_call")
    /\ ~query_vector.some
    /\ results["pinecone_results"] = EmbeddingError

\* The SQL section of the current call is over.
SqlOver == Occurs("sql_return") \/ Occurs("sql_raise")

\* C21 as stated: every call of execute_sql_query opens exactly one
\* connection and closes it before it ends, whatever the way out, and no
\* connection is open when no call of execute_sql_query is in progress.
C21_OneConnectionPerCall ==
    /\ SqlOver => Count("conn_open") = 1 /\ Count("conn_close") = 1
    /\ pc # "sql_execute" => open_conns = 0

\* C21, amended: every call of execute_sql_query tries once to connect; when
\* the connection cannot be opened the call ends by that exception with no
\* connection opened; a connection that was opened is the only one of the
\* call and is closed before the call ends, be it by returning rows, by
\* returning the error row or by an exception that is no sqlite3.Error; no
\* connection is open when no call of execute_sql_query is in progress.
C21_ConnectionScoped ==
    /\ open_conns = (IF pc = "sql_execute" THEN 1 ELSE 0)
    /\ Count("conn_open") <= 1
    /\ Count("conn_close")
          = (IF pc = "sql_execute" THEN 0 ELSE Count("conn_open"))
    /\ \A i \in 1..Len(calls) :
          calls[i] = "conn_close" =>
             /\ \E j \in 1..(i - 1) : calls[j] = "conn_open"
             /\ i < Len(calls)
             /\ calls[i + 1] \in {"sql_return", "sql_raise"}
    /\ SqlOver =>
          (Count("conn_open") = 0
              <=> /\ sql_ret.kind = "raise"
                  /\ sql_ret.msg = "unable to open database file")

C21_Witness ==
    /\ pc = "done"
    /\ sql_ret.kind = "raise"
    /\ sql_ret.exc = "TypeError"
    /\ Count("conn_open") = 1
    /\ Count("conn_close") = 1
    /\ open_conns = 0

\* The semantic step of the current call has failed.
SemanticFailed ==
    \/ pinecone_ret.kind = "raise"
    \/ pinecone_ret.kind = "return" /\ pinecone_ret.value.status = "error"

\* C22: when the semantic step of a call fails, the call still returns an
\* envelope: its sql_results and extracted_ids_for_pinecone are what they
\* were when the semantic step began and its pinecone_results holds the
\* failure with status "error".
C22_SemanticFailureKeepsStructured ==
    SemanticFailed =>
       /\ pc \in {"pinecone_done", "done", "idle"}
       /\ pc \in {"done", "idle"} =>
             /\ \A k \in DOMAIN SqlSection(sql_ret) :
                   k \in DOMAIN results /\ results[k] = SqlSection(sql_ret)[k]
             /\ DOMAIN results = DOMAIN SqlSection(sql_ret) \cup {"pinecone_results"}
             /\ results["pinecone_results"] = pinecone_ret.value
             /\ results["pinecone_results"].status = "error"

\* C23: the sql_results section is marked "success" exactly when the
\* structured executor returned at least one row and the first row has no
\* "error" field; a result of zero rows is marked "error" with empty data;
\* no identifier is extracted from a result that is not marked "success".
C23_SuccessIffRows ==
    pc = "done" =>
       /\ results["sql_results"].status \in {"success", "error"}
       /\ results["sql_results"].status = "success"
             <=> /\ sql_ret.kind = "return"
                 /\ Len(sql_ret.value) >= 1
                 /\ "error" \notin DOMAIN sql_ret.value[1]
       /\ (sql_ret.kind = "return" /\ sql_ret.value = <<>>) =>
             /\ results["sql_results"].status = "error"
             /\ results["sql_results"].data = <<>>
       /\ results["sql_results"].status # "success" =>
             /\ extracted_ids = <<>>
             /\ "extracted_ids_for_pinecone" \notin DOMAIN results
             /\ id_list = None

C23_Witness ==
    /\ pc = "done"
    /\ sql_query = QSelectIdTitle
    /\ sql_ret.kind = "return"
    /\ sql_ret.value = <<>>
    /\ results["sql_results"] = [status |-> "error", data |-> <<>>]
    /\ Occurs("index_query")
    /\ "filter" \notin DOMAIN query_params

\* C24: whenever a session is idle its history has even length and
\* alternates human and assistant messages, the first being a human message,
\* also after turns in which the planner or a tool failed and after the cut
\* to the cap.
C24_HistoryAlternates ==
    phase = "idle" =>
       /\ Len(chat_history) % 2 = 0
       /\ \A i \in 1..Len(chat_history) :
             chat_history[i].type = (IF i % 2 = 1 THEN "human" ELSE "ai")

\* C25: every envelope execute_queries returns has a sql_results section
\* with status "success" or "error"; it has extracted_ids_for_pinecone only
\* with status "success" and a non-empty list; it has pinecone_results only
\* with use_pinecone true.
C25_EnvelopeShape ==
    pc = "done" =>
       /\ "sql_results" \in DOMAIN results
       /\ results["sql_results"].status \in {"success", "error"}
       /\ "extracted_ids_for_pinecone" \in DOMAIN results =>
             /\ results["sql_results"].status = "success"
             /\ results["extracted_ids_for_pinecone"] # <<>>
       /\ "pinecone_results" \in DOMAIN results => use_pinecone
       /\ DOMAIN results \subseteq {"sql_results", "extracted_ids_for_pinecone",
                                   "pinecone_results"}

C25_Witness ==
    /\ pc = "done"
    /\ n_calls = 2
    /\ results["sql_results"].status = "success"
    /\ extracted_ids = <<>>
    /\ DOMAIN results = {"sql_results", "pinecone_results"}
    /\ results["pinecone_results"] = PineconeWarning

=============================================================================
